---- MODULE Spec2Model ----
(***************************************************************************)
(* Holocron mastery and scheduling engine (core/mastery.py, core/models.py)*)
(* as a state machine.                                                     *)
(*                                                                         *)
(* Representation of the numbers.  The program computes on Python floats.  *)
(* Here every float is a fixed-point integer counted in 1/Unit: a mastery  *)
(* score of 27.75 is 27750, an ease factor of 2.5 is 2500, a quality of    *)
(* 0.6 is 600, an interval of 6 days is 6000.  Time is counted in 1/Unit   *)
(* of a day.  Every arithmetic result is rounded to the nearest            *)
(* representable value (RoundDiv), as floating point rounds its results.   *)
(* overall_mastery carries one more decimal digit (1/(10*Unit)) so that    *)
(* the weighted sum 0.2r + 0.3c + 0.5a is exact.                           *)
(*                                                                         *)
(* A handler reads the clock (_utc_now) several times in a row; the reads  *)
(* of one handler are taken to be the same instant `now`.                  *)
(***************************************************************************)
EXTENDS Integers, Sequences, FiniteSets, TLC

VARIABLES
    now,                \* the wall clock read by _utc_now(), in 1/Unit day
    mastery_model,      \* MasteryEngine.mastery_model
    scaffold_levels,    \* DomainConfig.scaffold_levels
    mastery_decay_rate, \* DomainConfig.mastery_decay_rate, in 1/Unit per day
    domain_mastery,     \* LearnerProfile.domain_mastery[domain_id]: concept_id -> ConceptMastery
    ret,                \* the MasteryUpdate returned by the last update call
    level,              \* the value returned by the last get_scaffold_level call
    calls,              \* number of engine calls made so far
    obs,                \* recognition_score as read by the caller after each call
    graph,              \* the ConceptGraph: concepts and the three edge lists
    added,              \* the Concept objects handed to add_concept so far
    path_call,          \* the activation of get_learning_path: dfs stack, visited, path
    query,              \* the last query made and the value it returned
    threads,            \* the update calls in progress on one record, each at its statement
    serial,             \* whether the callers of the engine take turns
    session             \* the REPL SessionController, its repository and its input

vars == <<now, mastery_model, scaffold_levels, mastery_decay_rate,
          domain_mastery, ret, level, calls, obs,
          graph, added, path_call, query, threads, serial, session>>

\* the state the mastery engine's update methods do not touch
graph_state == <<graph, added, path_call, query, threads, serial, session>>

\* the state the ConceptGraph's methods do not touch
engine_state == <<now, mastery_model, scaffold_levels, mastery_decay_rate,
                  domain_mastery, ret, level, calls, obs, threads, serial, session>>

config == <<mastery_model, scaffold_levels, mastery_decay_rate>>

----------------------------------------------------------------------------
(* Numbers *)

Unit == 1000

Day == 1 * Unit

None == -1

Min(a, b) == IF a <= b THEN a ELSE b

Max(a, b) == IF a >= b THEN a ELSE b

\* n / d rounded to the nearest integer, n >= 0, d > 0
RoundDiv(n, d) == (n + (d \div 2)) \div d

\* int(x) of a non-negative fixed-point x
Trunc(x) == x \div Unit

----------------------------------------------------------------------------
(* Bounds and input sets of the model *)

MaxCalls == 2

MaxDays == 3

MaxSchedCalls == 5

MaxOtherCalls == 3

MaxBloomCalls == 2

MaxRepeat == 64

MaxLevels == 7

\* the interpreter's recursion limit, scaled to the graphs of the model
MaxDepth == 4

\* update calls in one behaviour of SpecProfile
MaxProfileCalls == 2

\* update calls in one behaviour of SpecLookup
MaxLookupCalls == 2

\* update calls in one behaviour of SpecStreak
MaxStreakCalls == 16

\* update calls in one behaviour of SpecDecay
MaxDecayCalls == 3

\* add_concept calls in one behaviour of SpecBuild
MaxConcepts == 3

ConceptIds == {"a", "b"}

MasteryModels == {"exposure-count", "spaced-repetition", "assessment-based", "hybrid"}

BloomLevels == {"knowledge", "comprehension", "application",
                "analysis", "synthesis", "evaluation"}

\* a value that is no member of the BloomLevel enum
OtherBloom == "creating"

Qualities == {0, Unit \div 2, Unit}

Scores == {0, (6 * Unit) \div 10, Unit}

\* the clock advances a day and a half at a time
TickStep == (3 * Day) \div 2

DecayRates == {0, (5 * Unit) \div 100}

\* the mastery marks 19.9, 20, 39.9, 40, ..., 99.9, 100 and 0
ScaffoldMarks ==
    {0} \cup UNION {{20 * k * Unit - Unit \div 10, 20 * k * Unit} : k \in 1..5}

\* the one concept of the single-record specifications
Concept == "a"

\* the bloom level of the assessments of SpecSched
SchedBloom == "application"

----------------------------------------------------------------------------
(* core/models.py *)

\* ConceptMastery(concept_id, learner_id) with the dataclass defaults
NewMastery ==
    [recognition_score   |-> 0,
     comprehension_score |-> 0,
     application_score   |-> 0,
     exposure_count      |-> 0,
     first_exposure      |-> None,
     last_exposure       |-> None,
     last_assessment     |-> None,
     assessment_results  |-> << >>,
     ease_factor         |-> (25 * Unit) \div 10,
     interval_days       |-> 1 * Unit,
     next_review         |-> None]

\* get_mastery that makes a fresh record on every access
get_mastery_Fresh(dm, c) ==
    (c :> NewMastery) @@ dm

\* LearnerProfile.get_mastery: the collection after the lookup; the record
\* returned is get_mastery(dm, c)[c]
get_mastery(dm, c) ==
    IF c \in DOMAIN dm THEN dm ELSE dm @@ (c :> NewMastery)

\* ConceptMastery.overall_mastery, in 1/(10*Unit)
overall_mastery(m) ==
    2 * m.recognition_score + 3 * m.comprehension_score + 5 * m.application_score

\* the breakpoints closed on the right instead of the left
get_scaffold_level_Inclusive(m, num_levels) ==
    LET mastery == 2 * m.recognition_score + 3 * m.comprehension_score
                   + 5 * m.application_score
    IN  IF mastery <= 20 * 10 * Unit THEN 1
        ELSE IF mastery <= 40 * 10 * Unit THEN 2
        ELSE IF mastery <= 60 * 10 * Unit THEN 3
        ELSE IF mastery <= 80 * 10 * Unit THEN 4
        ELSE num_levels

\* ConceptMastery.get_scaffold_level
get_scaffold_level(m, num_levels) ==
    LET mastery == overall_mastery(m)
    IN  IF mastery < 20 * 10 * Unit THEN 1
        ELSE IF mastery < 40 * 10 * Unit THEN 2
        ELSE IF mastery < 60 * 10 * Unit THEN 3
        ELSE IF mastery < 80 * 10 * Unit THEN 4
        ELSE num_levels

\* is_due_for_review that is not yet due at the review time itself
is_due_for_review_Strict(m, t) ==
    IF m.next_review = None THEN TRUE ELSE t > m.next_review

\* ConceptMastery.is_due_for_review at time t
is_due_for_review(m, t) ==
    IF m.next_review = None THEN TRUE ELSE t >= m.next_review

\* the elements of a list
Range(s) == {s[i] : i \in 1..Len(s)}

\* "no parent": parent_concept is None (or empty), which `if parent_concept` skips
NoParent == ""

\* Concept(concept_id, ..., prerequisites, related_concepts, parent_concept)
NewConcept(id, ps, rs, parent) ==
    [concept_id       |-> id,
     prerequisites    |-> ps,
     related_concepts |-> rs,
     parent_concept   |-> parent]

\* ConceptGraph(): `keys` is the insertion order of the dict `concepts`
EmptyGraph ==
    [concepts           |-> << >>,
     keys               |-> << >>,
     prerequisite_edges |-> << >>,
     related_edges      |-> << >>,
     hierarchy_edges    |-> << >>]

\* the loop over concept.related_concepts: an edge is appended unless present
RECURSIVE AddRelated(_, _, _)
AddRelated(edges, id, rs) ==
    IF rs = << >>
    THEN edges
    ELSE LET e == <<id, Head(rs)>>
         IN  AddRelated(IF e \in Range(edges) THEN edges ELSE Append(edges, e),
                        id, Tail(rs))

\* add_concept that links a prerequisite only when it is already in the graph
add_concept_KnownOnly(g, k) ==
    LET id == k.concept_id
        known == SelectSeq(k.prerequisites, LAMBDA p : p \in DOMAIN g.concepts)
    IN  [concepts           |-> (id :> k) @@ g.concepts,
         keys               |-> IF id \in DOMAIN g.concepts
                                THEN g.keys ELSE Append(g.keys, id),
         prerequisite_edges |-> g.prerequisite_edges \o
                                   [i \in 1..Len(known) |-> <<known[i], id>>],
         related_edges      |-> AddRelated(g.related_edges, id, k.related_concepts),
         hierarchy_edges    |-> IF k.parent_concept # NoParent
                                THEN Append(g.hierarchy_edges, <<k.parent_concept, id>>)
                                ELSE g.hierarchy_edges]

\* ConceptGraph.add_concept: the graph after adding concept k
add_concept(g, k) ==
    LET id == k.concept_id
    IN  [concepts           |-> (id :> k) @@ g.concepts,
         keys               |-> IF id \in DOMAIN g.concepts
                                THEN g.keys ELSE Append(g.keys, id),
         prerequisite_edges |-> g.prerequisite_edges \o
                                   [i \in 1..Len(k.prerequisites) |->
                                       <<k.prerequisites[i], id>>],
         related_edges      |-> AddRelated(g.related_edges, id, k.related_concepts),
         hierarchy_edges    |-> IF k.parent_concept # NoParent
                                THEN Append(g.hierarchy_edges, <<k.parent_concept, id>>)
                                ELSE g.hierarchy_edges]

\* get_prerequisites that reads the edges backwards
get_prerequisites_Reversed(g, n) ==
    LET es == SelectSeq(g.prerequisite_edges, LAMBDA e : e[1] = n)
    IN  [i \in 1..Len(es) |-> es[i][2]]

\* ConceptGraph.get_prerequisites: from_id of every edge into n, in list order
get_prerequisites(g, n) ==
    LET es == SelectSeq(g.prerequisite_edges, LAMBDA e : e[2] = n)
    IN  [i \in 1..Len(es) |-> es[i][1]]

\* no get_learning_path call is in progress
NoPath ==
    [pc |-> "idle", target |-> "", stack |-> << >>, visited |-> {}, path |-> << >>]

\* dfs that does not look at `visited`
dfs_NoVisited(g, d, n) ==
    IF Len(d.stack) >= MaxDepth
    THEN [d EXCEPT !.pc = "error"]
    ELSE [d EXCEPT !.visited = @ \cup {n},
                   !.stack = Append(@, [node |-> n,
                                        todo |-> get_prerequisites(g, n)])]

\* a call dfs(n) inside get_learning_path: return at once when n is visited,
\* else mark n and open a frame that loops over get_prerequisites(n); the
\* interpreter raises RecursionError when the frames exceed its limit
dfs(g, d, n) ==
    IF n \in d.visited
    THEN d
    ELSE IF Len(d.stack) >= MaxDepth
         THEN [d EXCEPT !.pc = "error"]
         ELSE [d EXCEPT !.visited = @ \cup {n},
                        !.stack = Append(@, [node |-> n,
                                             todo |-> get_prerequisites(g, n)])]

\* ConceptGraph.get_learning_path(target): path = [], visited = set(), dfs(target)
get_learning_path(g, target) ==
    dfs(g, [pc |-> "run", target |-> target, stack |-> << >>,
            visited |-> {}, path |-> << >>], target)

\* one step of the running dfs: the innermost frame takes its next
\* prerequisite and calls dfs on it, or, its loop over, appends its own
\* node to path and returns; with no frame left get_learning_path returns
dfs_step(g, d) ==
    IF d.stack = << >>
    THEN [d EXCEPT !.pc = "done"]
    ELSE LET top  == Len(d.stack)
             f    == d.stack[top]
         IN  IF f.todo # << >>
             THEN dfs(g, [d EXCEPT !.stack[top].todo = Tail(f.todo)], Head(f.todo))
             ELSE [d EXCEPT !.path = Append(@, f.node),
                            !.stack = SubSeq(@, 1, top - 1)]

\* get_next_concepts that asks for one mastered prerequisite only
get_next_concepts_Any(g, mastered) ==
    SelectSeq(g.keys,
              LAMBDA id : /\ id \notin mastered
                          /\ \/ get_prerequisites(g, id) = << >>
                             \/ \E p \in Range(get_prerequisites(g, id)) :
                                   p \in mastered)

\* ConceptGraph.get_next_concepts(mastered): the ready concepts, in dict order
get_next_concepts(g, mastered) ==
    SelectSeq(g.keys,
              LAMBDA id : /\ id \notin mastered
                          /\ \A p \in Range(get_prerequisites(g, id)) :
                                p \in mastered)

\* no query has been made yet
NoQuery == [op |-> "none"]

\* no update call is in progress
NoThreads == << >>

\* no REPL session has been constructed
NoSession == [state |-> "none"]

\* the graph-side variables of a specification that does not use the graph
InitGraph ==
    /\ graph = EmptyGraph
    /\ added = {}
    /\ path_call = NoPath
    /\ query = NoQuery
    /\ threads = NoThreads
    /\ serial = TRUE
    /\ session = NoSession

----------------------------------------------------------------------------
(* core/mastery.py *)

\* MasteryUpdate; NoUpdate stands for "no update call has returned yet"
NoUpdate ==
    [concept_id |-> "", previous_mastery |-> 0, new_mastery |-> 0,
     previous_scaffold_level |-> 0, new_scaffold_level |-> 0,
     mastery_delta |-> 0, new_exposure_count |-> 0, new_next_review |-> None]

MasteryUpdate(c, before, after, n, count, review) ==
    [concept_id |-> c,
     previous_mastery |-> overall_mastery(before),
     new_mastery |-> overall_mastery(after),
     previous_scaffold_level |-> get_scaffold_level(before, n),
     new_scaffold_level |-> get_scaffold_level(after, n),
     mastery_delta |-> overall_mastery(after) - overall_mastery(before),
     new_exposure_count |-> count,
     new_next_review |-> review]

\* the call raised OverflowError and returned no MasteryUpdate
OverflowError == [error |-> "OverflowError"]

\* gain = base * quality * (1 - current / 100)
DiminishingGain(base, quality, current) ==
    RoundDiv(base * quality * (100 * Unit - current), 100 * Unit)

\* the recognition gain without diminishing returns
ExposureRecognition_Flat(quality, current) ==
    IF current + 15 * quality <= 100 * Unit THEN current + 15 * quality
    ELSE 100 * Unit

\* the gain taken against a maximum of 10 instead of 100: (1 - current/10)
ExposureRecognition_Scale(quality, current) ==
    IF current + (15 * quality * (10 * Unit - current)) \div (10 * Unit) <= 100 * Unit
    THEN current + (15 * quality * (10 * Unit - current)) \div (10 * Unit)
    ELSE 100 * Unit

\* recognition_score after an exposure of the given quality
ExposureRecognition(quality, current) ==
    Min(100 * Unit, current + DiminishingGain(15, quality, current))

\* the comprehension gain given under every mastery model
ExposureComprehension_All(model, quality, current) ==
    Min(100 * Unit, current + DiminishingGain(5, quality, current))

\* comprehension_score after an exposure of the given quality
ExposureComprehension(model, quality, current) ==
    IF model \in {"exposure-count", "hybrid"}
    THEN Min(100 * Unit, current + DiminishingGain(5, quality, current))
    ELSE current

\* MasteryEngine.update_from_exposure, the record after the call
ExposedRecord(m, model, quality, t) ==
    [m EXCEPT !.exposure_count = @ + 1,
              !.first_exposure = IF @ = None THEN t ELSE @,
              !.last_exposure = t,
              !.recognition_score = ExposureRecognition(quality, @),
              !.comprehension_score = ExposureComprehension(model, quality, @)]

update_from_exposure(c, quality) ==
    LET dm == get_mastery(domain_mastery, c)
        m  == ExposedRecord(dm[c], mastery_model, quality, now)
    IN  /\ domain_mastery' = [dm EXCEPT ![c] = m]
        /\ ret' = MasteryUpdate(c, dm[c], m, scaffold_levels,
                                m.exposure_count, m.next_review)
        /\ UNCHANGED <<now, config, level, graph_state>>

\* analysis counted with the application levels
dimension_Analysis(bloom_level) ==
    IF bloom_level = "knowledge" THEN "recognition_score"
    ELSE IF bloom_level = "comprehension" THEN "comprehension_score"
    ELSE "application_score"

\* the fallback branch selecting comprehension
dimension_Fallback(bloom_level) ==
    IF bloom_level = "knowledge" THEN "recognition_score"
    ELSE IF bloom_level \in {"application", "synthesis", "evaluation"}
         THEN "application_score"
    ELSE "comprehension_score"

\* the bloom level selects the dimension an assessment adjusts
dimension(bloom_level) ==
    IF bloom_level = "knowledge" THEN "recognition_score"
    ELSE IF bloom_level \in {"comprehension", "analysis"} THEN "comprehension_score"
    ELSE "application_score"

\* the correct-assessment gain without diminishing returns
CorrectScore_Flat(score, current) ==
    Min(100 * Unit, current + 20 * score)

\* the selected dimension after a correct assessment
CorrectScore(score, current) ==
    Min(100 * Unit, current + DiminishingGain(20, score, current))

\* the loss subtracted without the floor at 0
IncorrectScore_NoFloor(score, current) ==
    current - 10 * (Unit - score)

\* the selected dimension after an incorrect assessment
IncorrectScore(score, current) ==
    Max(0, current - 10 * (Unit - score))

\* SM-2 grade: q = int(quality * 5)
Grade(quality) == Trunc(quality * 5)

\* the SM-2 recurrence without the floor of 1.3
NextEase_NoFloor(ease, q) ==
    ease + Unit \div 10
         - (5 - q) * ((8 * Unit) \div 100 + (5 - q) * ((2 * Unit) \div 100))

\* EF' = max(1.3, EF + 0.1 - (5-q) * (0.08 + (5-q) * 0.02))
NextEase(ease, q) ==
    Max((13 * Unit) \div 10,
        ease + Unit \div 10
             - (5 - q) * ((8 * Unit) \div 100 + (5 - q) * ((2 * Unit) \div 100)))

\* x * f of two fixed-point numbers, rounded: RoundDiv(x * f, Unit) computed
\* on the whole and the fractional part of x apart, which keeps the
\* products within the integers of the checker
Scaled(x, f) ==
    (x \div Unit) * f + RoundDiv((x % Unit) * f, Unit)

\* The last instant a datetime can hold (year 9999), counted from time 0.
\* From a start in this century about 2.9 million days are left; the
\* 2 million days here lie, like them, between the 12th interval of a
\* streak of perfect assessments (887,342 days) and the 13th (3,371,901).
MaxDate == 2000000 * Day

\* an interval_days value that no datetime can be moved by
Beyond == MaxDate + 1 * Day

\* t + timedelta(days = interval * ease) is past MaxDate: the addition
\* raises OverflowError
Overflows(interval, ease, t) ==
    IF interval \div Unit > MaxDate \div ease
    THEN TRUE
    ELSE t + Scaled(interval, ease) > MaxDate

\* _update_spaced_repetition raises OverflowError at its last statement
SchedulerRaises(m, quality, t) ==
    LET q == Grade(quality)
    IN  /\ q >= 3
        /\ m.exposure_count > 2
        /\ Overflows(m.interval_days, NextEase(m.ease_factor, q), t)

\* the interval with the second-pass case taken one exposure late
NextInterval_OffByOne(q, exposure_count, interval, ease) ==
    IF q >= 3
    THEN IF exposure_count <= 2 THEN 1 * Unit
         ELSE IF exposure_count = 3 THEN 6 * Unit
         ELSE Scaled(interval, ease)
    ELSE 1 * Unit

\* the interval the scheduler sets, given the updated ease factor
NextInterval(q, exposure_count, interval, ease) ==
    IF q >= 3
    THEN IF exposure_count <= 1 THEN 1 * Unit
         ELSE IF exposure_count = 2 THEN 6 * Unit
         ELSE Scaled(interval, ease)
    ELSE 1 * Unit

\* the scheduler multiplying the interval by the ease factor before its update
update_spaced_repetition_OldEase(m, quality, t) ==
    LET q        == Grade(quality)
        ease     == NextEase(m.ease_factor, q)
        interval == NextInterval(q, m.exposure_count, m.interval_days, m.ease_factor)
    IN  [m EXCEPT !.ease_factor = ease,
                  !.interval_days = interval,
                  !.next_review = t + interval]

\* MasteryEngine._update_spaced_repetition at time t; when the new review
\* date is out of range, ease_factor and interval_days are already
\* assigned and next_review keeps its value
update_spaced_repetition(m, quality, t) ==
    LET q        == Grade(quality)
        ease     == NextEase(m.ease_factor, q)
        interval == NextInterval(q, m.exposure_count, m.interval_days, ease)
    IN  IF SchedulerRaises(m, quality, t)
        THEN [m EXCEPT !.ease_factor = ease,
                       !.interval_days = Beyond]
        ELSE [m EXCEPT !.ease_factor = ease,
                       !.interval_days = interval,
                       !.next_review = t + interval]

\* the incorrect branch rescheduling by the interval the record already has
ResetReview_KeepInterval(m, t) ==
    [m EXCEPT !.next_review = t + m.interval_days]

\* the incorrect branch: the interval is reset and the review is tomorrow
ResetReview(m, t) ==
    [m EXCEPT !.interval_days = 1 * Unit,
              !.next_review = t + 1 * Day]

\* update_from_assessment that counts the assessment as an exposure
AssessedRecord_Counts(m, result, bloom_level, t) ==
    LET dim     == dimension(bloom_level)
        current == m[dim]
        m1      == [m EXCEPT !.assessment_results = Append(@, result),
                             !.last_assessment = t,
                             !.exposure_count = @ + 1]
    IN  IF result.is_correct
        THEN update_spaced_repetition(
                 [m1 EXCEPT ![dim] = CorrectScore(result.score, current)],
                 result.score, t)
        ELSE ResetReview(
                 [m1 EXCEPT ![dim] = IncorrectScore(result.score, current)], t)

\* MasteryEngine.update_from_assessment, the record after the call;
\* result is [is_correct, score]
AssessedRecord(m, result, bloom_level, t) ==
    LET dim     == dimension(bloom_level)
        current == m[dim]
        m1      == [m EXCEPT !.assessment_results = Append(@, result),
                             !.last_assessment = t]
    IN  IF result.is_correct
        THEN update_spaced_repetition(
                 [m1 EXCEPT ![dim] = CorrectScore(result.score, current)],
                 result.score, t)
        ELSE ResetReview(
                 [m1 EXCEPT ![dim] = IncorrectScore(result.score, current)], t)

update_from_assessment(c, result, bloom_level) ==
    LET dm == get_mastery(domain_mastery, c)
        m  == AssessedRecord(dm[c], result, bloom_level, now)
    IN  /\ domain_mastery' = [dm EXCEPT ![c] = m]
        /\ ret' = IF result.is_correct /\ SchedulerRaises(dm[c], result.score, now)
                  THEN OverflowError
                  ELSE MasteryUpdate(c, dm[c], m, scaffold_levels, 0, None)
        /\ UNCHANGED <<now, config, level, graph_state>>

\* the decay without the floor at 0
DecayedRecord_NoFloor(m, rate, t) ==
    IF m.last_exposure # None
    THEN LET days_since == (t - m.last_exposure) \div Day
             decay      == rate * days_since
         IN  [m EXCEPT
                !.recognition_score   = @ - RoundDiv(decay * 5, 10),
                !.comprehension_score = @ - RoundDiv(decay * 7, 10),
                !.application_score   = @ - decay]
    ELSE m

\* the decay that restarts the count of days at every call
DecayedRecord_Restart(m, rate, t) ==
    IF m.last_exposure # None
    THEN LET days_since == (t - m.last_exposure) \div Day
             decay      == rate * days_since
         IN  [m EXCEPT
                !.recognition_score   = Max(0, @ - RoundDiv(decay * 5, 10)),
                !.comprehension_score = Max(0, @ - RoundDiv(decay * 7, 10)),
                !.application_score   = Max(0, @ - decay),
                !.last_exposure       = t]
    ELSE m

\* one record after apply_decay at time t
DecayedRecord(m, rate, t) ==
    IF m.last_exposure # None
    THEN LET days_since == (t - m.last_exposure) \div Day
             decay      == rate * days_since
         IN  [m EXCEPT
                !.recognition_score   = Max(0, @ - RoundDiv(decay * 5, 10)),
                !.comprehension_score = Max(0, @ - RoundDiv(decay * 7, 10)),
                !.application_score   = Max(0, @ - decay)]
    ELSE m

\* MasteryEngine.apply_decay
apply_decay ==
    /\ domain_mastery' =
          IF mastery_model \in {"spaced-repetition", "hybrid"}
          THEN [c \in DOMAIN domain_mastery |->
                   DecayedRecord(domain_mastery[c], mastery_decay_rate, now)]
          ELSE domain_mastery
    /\ UNCHANGED <<now, config, ret, level, graph_state>>

\* the clock moves forward between calls
Tick ==
    /\ now' = now + TickStep
    /\ UNCHANGED <<config, domain_mastery, ret, level, graph_state>>

\* the clock moves forward one day between calls
TickDay ==
    /\ now' = now + Day
    /\ UNCHANGED <<config, domain_mastery, ret, level, graph_state>>

\* what a query leaves alone besides the record collection
query_frame == <<now, config, ret, level, graph, added, path_call, threads, serial, session>>

\* LearnerProfile.get_mastery called by a client: the record is returned
profile_get_mastery(c) ==
    LET dm == get_mastery(domain_mastery, c)
    IN  /\ domain_mastery' = dm
        /\ query' = [op |-> "get_mastery", arg |-> c, value |-> dm[c]]
        /\ UNCHANGED query_frame

\* The queries below return Python lists in the insertion order of the
\* record dict; the model returns their elements as a set.
mastered_concepts(dm) ==
    {c \in DOMAIN dm : overall_mastery(dm[c]) >= 80 * 10 * Unit}

struggling_concepts(dm) ==
    {c \in DOMAIN dm : /\ overall_mastery(dm[c]) < 40 * 10 * Unit
                       /\ dm[c].exposure_count >= 3}

concepts_due_for_review(dm, t) ==
    {c \in DOMAIN dm : is_due_for_review(dm[c], t)}

\* MasteryEngine.get_mastered_concepts()
get_mastered_concepts ==
    /\ query' = [op |-> "get_mastered_concepts",
                 value |-> mastered_concepts(domain_mastery)]
    /\ UNCHANGED <<domain_mastery, query_frame>>

\* MasteryEngine.get_struggling_concepts()
get_struggling_concepts ==
    /\ query' = [op |-> "get_struggling_concepts",
                 value |-> struggling_concepts(domain_mastery)]
    /\ UNCHANGED <<domain_mastery, query_frame>>

\* MasteryEngine.get_concepts_due_for_review()
get_concepts_due_for_review ==
    /\ query' = [op |-> "get_concepts_due_for_review",
                 value |-> concepts_due_for_review(domain_mastery, now)]
    /\ UNCHANGED <<domain_mastery, query_frame>>

\* the loop of get_overall_scaffold_level: get_mastery on every concept
RECURSIVE LookedUp(_, _)
LookedUp(dm, cs) ==
    IF cs = << >> THEN dm ELSE LookedUp(get_mastery(dm, Head(cs)), Tail(cs))

\* total_mastery of the loop, in 1/(10*Unit)
RECURSIVE TotalMastery(_, _)
TotalMastery(dm, cs) ==
    IF cs = << >>
    THEN 0
    ELSE overall_mastery(dm[Head(cs)]) + TotalMastery(dm, Tail(cs))

\* sum of overall_mastery over the records ids of dm, in 1/(10*Unit)
RECURSIVE SumMastery(_, _)
SumMastery(dm, ids) ==
    IF ids = {}
    THEN 0
    ELSE LET c == CHOOSE x \in ids : TRUE
         IN  overall_mastery(dm[c]) + SumMastery(dm, ids \ {c})

\* MasteryEngine.get_overall_scaffold_level(concepts), concepts by their ids
get_overall_scaffold_level(cs) ==
    IF cs = << >>
    THEN /\ query' = [op |-> "get_overall_scaffold_level", arg |-> cs, value |-> 1]
         /\ UNCHANGED <<domain_mastery, query_frame>>
    ELSE LET dm  == LookedUp(domain_mastery, cs)
             avg == RoundDiv(TotalMastery(dm, cs), Len(cs))
             lvl == IF avg < 20 * 10 * Unit THEN 1
                    ELSE IF avg < 40 * 10 * Unit THEN 2
                    ELSE IF avg < 60 * 10 * Unit THEN 3
                    ELSE IF avg < 80 * 10 * Unit THEN 4
                    ELSE scaffold_levels
         IN  /\ domain_mastery' = dm
             /\ query' = [op |-> "get_overall_scaffold_level",
                          arg |-> cs, value |-> lvl]
             /\ UNCHANGED query_frame

\* MasteryEngine.get_stats(): average_mastery in 1/(10*Unit), mastery_rate in 1/Unit
get_stats ==
    LET dm             == domain_mastery
        total_concepts == Cardinality(DOMAIN dm)
        mastered       == Cardinality(mastered_concepts(dm))
    IN  /\ query' =
              [op    |-> "get_stats",
               value |-> [mastery_model       |-> mastery_model,
                          total_concepts      |-> total_concepts,
                          mastered_concepts   |-> mastered,
                          struggling_concepts |-> Cardinality(struggling_concepts(dm)),
                          due_for_review      |->
                              Cardinality(concepts_due_for_review(dm, now)),
                          average_mastery     |->
                              IF total_concepts > 0
                              THEN RoundDiv(SumMastery(dm, DOMAIN dm), total_concepts)
                              ELSE 0,
                          mastery_rate        |->
                              IF total_concepts > 0
                              THEN RoundDiv(mastered * Unit, total_concepts)
                              ELSE 0]]
        /\ UNCHANGED <<domain_mastery, query_frame>>

----------------------------------------------------------------------------
InitEngine ==
    /\ now = 0
    /\ mastery_model \in MasteryModels
    /\ scaffold_levels = 5
    /\ mastery_decay_rate \in DecayRates
    /\ domain_mastery = << >>
    /\ ret = NoUpdate
    /\ level = 0
    /\ calls = 0
    /\ obs = << >>
    /\ InitGraph

Init == InitEngine

Results == [is_correct : BOOLEAN, score : Scores]

Exposure ==
    /\ calls < MaxCalls
    /\ \E c \in ConceptIds, q \in Qualities : update_from_exposure(c, q)
    /\ calls' = calls + 1
    /\ UNCHANGED obs

Assessment ==
    /\ calls < MaxCalls
    /\ \E c \in ConceptIds, r \in Results, b \in BloomLevels \cup {OtherBloom} :
          update_from_assessment(c, r, b)
    /\ calls' = calls + 1
    /\ UNCHANGED obs

Decay ==
    /\ calls < MaxCalls
    /\ apply_decay
    /\ calls' = calls + 1
    /\ UNCHANGED obs

Clock ==
    /\ now + TickStep <= MaxDays * Day
    /\ Tick
    /\ UNCHANGED <<calls, obs>>

Next == Exposure \/ Assessment \/ Decay \/ Clock

Spec == Init /\ [][Next]_vars

----------------------------------------------------------------------------
(* One record under the default DomainConfig (domains/base.py): a longer   *)
(* history of exposures, assessments, decay and clock ticks.               *)

InitSched ==
    /\ InitEngine
    /\ mastery_model = "hybrid"
    /\ mastery_decay_rate = (5 * Unit) \div 100

SchedResults == [is_correct : {TRUE}, score : Scores]
                  \cup [is_correct : {FALSE}, score : {0, (6 * Unit) \div 10}]

SchedExposure ==
    /\ calls < MaxSchedCalls
    /\ update_from_exposure(Concept, Unit)
    /\ calls' = calls + 1
    /\ UNCHANGED obs

SchedAssessment ==
    /\ calls < MaxSchedCalls
    /\ \E r \in SchedResults : update_from_assessment(Concept, r, SchedBloom)
    /\ calls' = calls + 1
    /\ UNCHANGED obs

SchedDecay ==
    /\ calls < MaxSchedCalls
    /\ apply_decay
    /\ calls' = calls + 1
    /\ UNCHANGED obs

NextSched == SchedExposure \/ SchedAssessment \/ SchedDecay \/ Clock

SpecSched == InitSched /\ [][NextSched]_vars

----------------------------------------------------------------------------
(* Repeated update_from_exposure(concept, 1.0) on one record; the caller   *)
(* reads recognition_score after every call.                               *)

RepeatExposure ==
    /\ calls < MaxRepeat
    /\ update_from_exposure(Concept, Unit)
    /\ calls' = calls + 1
    /\ obs' = Append(obs, domain_mastery'[Concept].recognition_score)

NextRepeat == RepeatExposure

SpecRepeat == InitEngine /\ [][NextRepeat]_vars

----------------------------------------------------------------------------
(* get_scaffold_level on records loaded with any mastery scores, under any *)
(* configured number of levels.                                            *)

InitScaffold ==
    /\ now = 0
    /\ mastery_model = "hybrid"
    /\ scaffold_levels \in 1..MaxLevels
    /\ mastery_decay_rate = (5 * Unit) \div 100
    /\ \E r \in ScaffoldMarks, c \in ScaffoldMarks, a \in ScaffoldMarks :
          domain_mastery = (Concept :> [NewMastery EXCEPT
                                           !.recognition_score = r,
                                           !.comprehension_score = c,
                                           !.application_score = a])
    /\ ret = NoUpdate
    /\ level = 0
    /\ calls = 0
    /\ obs = << >>
    /\ InitGraph

\* MasteryEngine.get_scaffold_level(concept_id)
engine_get_scaffold_level(c) ==
    LET dm == get_mastery(domain_mastery, c)
    IN  /\ domain_mastery' = dm
        /\ level' = get_scaffold_level(dm[c], scaffold_levels)
        /\ UNCHANGED <<now, config, ret, graph_state>>

QueryLevel ==
    /\ calls < 1
    /\ \E c \in ConceptIds : engine_get_scaffold_level(c)
    /\ calls' = calls + 1
    /\ UNCHANGED obs

NextScaffold == QueryLevel

SpecScaffold == InitScaffold /\ [][NextScaffold]_vars

----------------------------------------------------------------------------
(* Assessments whose bloom_level is no member of BloomLevel. *)

OtherExposure ==
    /\ calls < MaxOtherCalls
    /\ \E q \in Qualities : update_from_exposure(Concept, q)
    /\ calls' = calls + 1
    /\ UNCHANGED obs

OtherAssessment ==
    /\ calls < MaxOtherCalls
    /\ \E r \in Results : update_from_assessment(Concept, r, OtherBloom)
    /\ calls' = calls + 1
    /\ UNCHANGED obs

NextOther == OtherExposure \/ OtherAssessment \/ Clock

SpecOther == InitEngine /\ [][NextOther]_vars

----------------------------------------------------------------------------
(* One record under the default DomainConfig: exposures and assessments at *)
(* each of the six bloom levels.                                           *)

BloomExposure ==
    /\ calls < MaxBloomCalls
    /\ \E q \in Qualities : update_from_exposure(Concept, q)
    /\ calls' = calls + 1
    /\ UNCHANGED obs

BloomAssessment ==
    /\ calls < MaxBloomCalls
    /\ \E r \in Results, b \in BloomLevels : update_from_assessment(Concept, r, b)
    /\ calls' = calls + 1
    /\ UNCHANGED obs

NextBloom == BloomExposure \/ BloomAssessment \/ Clock

SpecBloom == InitSched /\ [][NextBloom]_vars

----------------------------------------------------------------------------
(* Decay: records of every mastery model and decay rate, exposed, assessed *)
(* and decayed as the clock moves.                                         *)

DecayExposure ==
    /\ calls < MaxDecayCalls
    /\ \E c \in ConceptIds : update_from_exposure(c, Unit)
    /\ calls' = calls + 1
    /\ UNCHANGED obs

DecayAssessment ==
    /\ calls < MaxDecayCalls
    /\ \E c \in ConceptIds :
          update_from_assessment(c, [is_correct |-> TRUE, score |-> Unit], SchedBloom)
    /\ calls' = calls + 1
    /\ UNCHANGED obs

DecayStep ==
    /\ calls < MaxDecayCalls
    /\ apply_decay
    /\ calls' = calls + 1
    /\ UNCHANGED obs

NextDecay == DecayExposure \/ DecayAssessment \/ DecayStep \/ Clock

SpecDecay == InitEngine /\ [][NextDecay]_vars

----------------------------------------------------------------------------
(* Building a ConceptGraph: add_concept calls in any order, the same       *)
(* concept_id possibly declared more than once.                            *)

BuildIds == {"a", "b", "c"}

\* what a concept declares: prerequisites, related concepts, parent
BuildShapes ==
    {<< << >>, << >>, NoParent >>,
     << <<"a">>, <<"b">>, "a" >>,
     << <<"a", "b">>, <<"b", "c">>, NoParent >>,
     << <<"c">>, <<"b", "b">>, "c" >>}

BuildPool == {NewConcept(id, sh[1], sh[2], sh[3]) : id \in BuildIds, sh \in BuildShapes}

AddConcept ==
    /\ calls < MaxConcepts
    /\ \E k \in BuildPool :
          /\ graph' = add_concept(graph, k)
          /\ added' = added \cup {k}
    /\ calls' = calls + 1
    /\ UNCHANGED <<now, config, domain_mastery, ret, level, obs, path_call, query,
                   threads, serial, session>>

NextBuild == AddConcept

SpecBuild == InitSched /\ [][NextBuild]_vars

----------------------------------------------------------------------------
(* Queries on a built ConceptGraph: three concepts a, b, c, each declaring *)
(* up to two prerequisites among a, b, c and d; d is never added.  The     *)
(* graphs include chains, diamonds, cycles and self-loops.                 *)

PathIds == {"a", "b", "c", "d"}

PrereqLists ==
    {<< >>} \cup {<<x>> : x \in PathIds}
            \cup {<<e[1], e[2]>> : e \in {f \in PathIds \X PathIds : f[1] # f[2]}}

InitPath ==
    /\ now = 0
    /\ mastery_model = "hybrid"
    /\ scaffold_levels = 5
    /\ mastery_decay_rate = (5 * Unit) \div 100
    /\ domain_mastery = << >>
    /\ ret = NoUpdate
    /\ level = 0
    /\ calls = 0
    /\ obs = << >>
    /\ \E pa \in PrereqLists, pb \in PrereqLists, pc \in PrereqLists :
          LET ka == NewConcept("a", pa, << >>, NoParent)
              kb == NewConcept("b", pb, << >>, NoParent)
              kc == NewConcept("c", pc, << >>, NoParent)
          IN  /\ graph = add_concept(add_concept(add_concept(EmptyGraph, ka), kb), kc)
              /\ added = {ka, kb, kc}
    /\ path_call = NoPath
    /\ query = NoQuery
    /\ threads = NoThreads
    /\ serial = TRUE
    /\ session = NoSession

\* the caller calls get_learning_path(target)
LearningPath ==
    /\ path_call.pc = "idle"
    /\ query = NoQuery
    /\ \E target \in PathIds : path_call' = get_learning_path(graph, target)
    /\ UNCHANGED <<graph, added, query, engine_state>>

\* the call runs
PathStep ==
    /\ path_call.pc = "run"
    /\ path_call' = dfs_step(graph, path_call)
    /\ UNCHANGED <<graph, added, query, engine_state>>

\* the caller calls get_next_concepts(mastered)
NextConcepts ==
    /\ path_call.pc = "idle"
    /\ query = NoQuery
    /\ \E mastered \in SUBSET PathIds :
          query' = [op    |-> "get_next_concepts",
                    arg   |-> mastered,
                    value |-> get_next_concepts(graph, mastered)]
    /\ UNCHANGED <<graph, added, path_call, engine_state>>

NextPath == LearningPath \/ PathStep \/ NextConcepts

SpecPath == InitPath /\ [][NextPath]_vars

\* a call that has started keeps running: nothing else runs in its thread
SpecPathFair == InitPath /\ [][NextPath]_vars /\ WF_vars(PathStep)

----------------------------------------------------------------------------
(* A client of the engine under the default DomainConfig: updates, the     *)
(* clock moving a day at a time, and the queries.                          *)

\* the concept lists handed to get_overall_scaffold_level
ConceptLists ==
    {<< >>} \cup {<<c>> : c \in ConceptIds}
            \cup {<<e[1], e[2]>> : e \in ConceptIds \X ConceptIds}

ProfileResults == {[is_correct |-> TRUE, score |-> Unit], [is_correct |-> FALSE, score |-> 0]}

ProfileExposure ==
    /\ calls < MaxProfileCalls
    /\ \E c \in ConceptIds : update_from_exposure(c, Unit)
    /\ calls' = calls + 1
    /\ UNCHANGED obs

ProfileAssessment ==
    /\ calls < MaxProfileCalls
    /\ \E c \in ConceptIds, r \in ProfileResults :
          update_from_assessment(c, r, SchedBloom)
    /\ calls' = calls + 1
    /\ UNCHANGED obs

DayClock ==
    /\ now + Day <= MaxDays * Day
    /\ TickDay
    /\ UNCHANGED <<calls, obs>>

GetMastery ==
    /\ \E c \in ConceptIds : profile_get_mastery(c)
    /\ UNCHANGED <<calls, obs>>

MasteredQuery ==
    /\ get_mastered_concepts
    /\ UNCHANGED <<calls, obs>>

StrugglingQuery ==
    /\ get_struggling_concepts
    /\ UNCHANGED <<calls, obs>>

DueQuery ==
    /\ get_concepts_due_for_review
    /\ UNCHANGED <<calls, obs>>

OverallLevelQuery ==
    /\ \E cs \in ConceptLists : get_overall_scaffold_level(cs)
    /\ UNCHANGED <<calls, obs>>

StatsQuery ==
    /\ get_stats
    /\ UNCHANGED <<calls, obs>>

NextProfile ==
    \/ ProfileExposure \/ ProfileAssessment \/ DayClock
    \/ GetMastery \/ MasteredQuery \/ StrugglingQuery \/ DueQuery
    \/ OverallLevelQuery \/ StatsQuery

SpecProfile == InitSched /\ [][NextProfile]_vars

----------------------------------------------------------------------------
(* A client that updates records and looks them up with get_mastery.       *)

LookupExposure ==
    /\ calls < MaxLookupCalls
    /\ \E c \in ConceptIds, q \in Qualities : update_from_exposure(c, q)
    /\ calls' = calls + 1
    /\ UNCHANGED obs

LookupAssessment ==
    /\ calls < MaxLookupCalls
    /\ \E c \in ConceptIds, r \in ProfileResults :
          update_from_assessment(c, r, SchedBloom)
    /\ calls' = calls + 1
    /\ UNCHANGED obs

NextLookup == LookupExposure \/ LookupAssessment \/ GetMastery \/ DayClock

SpecLookup == InitSched /\ [][NextLookup]_vars

----------------------------------------------------------------------------
(* One record under the default DomainConfig on a long run of exposures    *)
(* and perfect assessments.                                                *)

StreakExposure ==
    /\ calls < MaxStreakCalls
    /\ update_from_exposure(Concept, Unit)
    /\ calls' = calls + 1
    /\ UNCHANGED obs

StreakAssessment ==
    /\ calls < MaxStreakCalls
    /\ update_from_assessment(Concept, [is_correct |-> TRUE, score |-> Unit], SchedBloom)
    /\ calls' = calls + 1
    /\ UNCHANGED obs

NextStreak == StreakExposure \/ StreakAssessment

SpecStreak == InitSched /\ [][NextStreak]_vars

----------------------------------------------------------------------------
(* Two callers updating the same record.  Each call runs statement by      *)
(* statement; an attribute load and an attribute store are one step each,  *)
(* so a statement that reads a field and writes it back takes two steps    *)
(* and another call's steps can fall between them.  Both calls read the    *)
(* same instant from the clock.                                            *)

Callers == {1, 2}

\* a call that has not been made yet
IdleCall ==
    [op |-> "none", quality |-> 0, result |-> [is_correct |-> FALSE, score |-> 0],
     bloom_level |-> "", pc |-> "idle", x |-> 0, y |-> 0, before |-> NewMastery]

\* the calls a caller can make
RaceCalls ==
    {[IdleCall EXCEPT !.op = "update_from_exposure", !.quality = q] :
        q \in {Unit \div 2, Unit}}
    \cup
    {[IdleCall EXCEPT !.op = "update_from_assessment", !.result = r,
                      !.bloom_level = b] :
        r \in [is_correct : {TRUE}, score : {Unit}]
                 \cup [is_correct : {FALSE}, score : {0}],
        b \in {"knowledge", "application"}}

\* the record the two calls find: new, exposed once, or exposed three
\* times and assessed
RaceStarts ==
    LET once   == ExposedRecord(NewMastery, "hybrid", Unit, 0)
        thrice == ExposedRecord(ExposedRecord(once, "hybrid", Unit, 0),
                                "hybrid", Unit, 0)
    IN  {NewMastery, once,
         AssessedRecord(thrice, [is_correct |-> TRUE, score |-> Unit],
                        "application", 0)}

\* the statement moves on without touching the record
Goto(m, th, next) == [m |-> m, th |-> [th EXCEPT !.pc = next]]

\* an attribute load into the temporary `reg` of the call
Load(m, th, reg, v, next) ==
    [m |-> m, th |-> [th EXCEPT ![reg] = v, !.pc = next]]

\* an attribute store
Store(m, th, field, v, next) ==
    [m |-> [m EXCEPT ![field] = v], th |-> [th EXCEPT !.pc = next]]

\* one step of update_from_exposure between its call and its return
exposure_step(m, th, model, t) ==
    CASE th.pc = "count_load"  -> Load(m, th, "x", m.exposure_count, "count_store")
      [] th.pc = "count_store" -> Store(m, th, "exposure_count", th.x + 1, "first")
      [] th.pc = "first"       ->
            IF m.first_exposure = None
            THEN Store(m, th, "first_exposure", t, "last")
            ELSE Goto(m, th, "last")
      [] th.pc = "last"        -> Store(m, th, "last_exposure", t, "rec_gain")
      [] th.pc = "rec_gain"    ->
            Load(m, th, "x", DiminishingGain(15, th.quality, m.recognition_score),
                  "rec_load")
      [] th.pc = "rec_load"    ->
            Load(m, th, "y", Min(100 * Unit, m.recognition_score + th.x), "rec_store")
      [] th.pc = "rec_store"   ->
            Store(m, th, "recognition_score", th.y,
                  IF model \in {"exposure-count", "hybrid"}
                  THEN "comp_gain" ELSE "return")
      [] th.pc = "comp_gain"   ->
            Load(m, th, "x", DiminishingGain(5, th.quality, m.comprehension_score),
                  "comp_load")
      [] th.pc = "comp_load"   ->
            Load(m, th, "y", Min(100 * Unit, m.comprehension_score + th.x), "comp_store")
      [] th.pc = "comp_store"  -> Store(m, th, "comprehension_score", th.y, "return")

\* one step of update_from_assessment, _update_spaced_repetition included,
\* between its call and its return
assessment_step(m, th, t) ==
    LET dim == dimension(th.bloom_level)
        q   == Grade(th.result.score)
    IN
    CASE th.pc = "append"        ->
            Store(m, th, "assessment_results",
                  Append(m.assessment_results, th.result), "last")
      [] th.pc = "last"          -> Store(m, th, "last_assessment", t, "current")
      [] th.pc = "current"       -> Load(m, th, "x", m[dim], "score_store")
      [] th.pc = "score_store"   ->
            IF th.result.is_correct
            THEN Store(m, th, dim, CorrectScore(th.result.score, th.x), "ease_load")
            ELSE Store(m, th, dim, IncorrectScore(th.result.score, th.x),
                       "reset_interval")
      [] th.pc = "ease_load"     -> Load(m, th, "x", m.ease_factor, "ease_store")
      [] th.pc = "ease_store"    ->
            Store(m, th, "ease_factor", NextEase(th.x, q),
                  IF q >= 3 THEN "count_first" ELSE "interval_one")
      [] th.pc = "count_first"   ->
            Goto(m, th, IF m.exposure_count <= 1 THEN "interval_one"
                        ELSE "count_second")
      [] th.pc = "count_second"  ->
            Goto(m, th, IF m.exposure_count = 2 THEN "interval_six"
                        ELSE "interval_load")
      [] th.pc = "interval_one"  -> Store(m, th, "interval_days", 1 * Unit, "review_load")
      [] th.pc = "interval_six"  -> Store(m, th, "interval_days", 6 * Unit, "review_load")
      [] th.pc = "interval_load" -> Load(m, th, "x", m.interval_days, "factor_load")
      [] th.pc = "factor_load"   -> Load(m, th, "y", m.ease_factor, "interval_store")
      [] th.pc = "interval_store" ->
            Store(m, th, "interval_days", Scaled(th.x, th.y), "review_load")
      [] th.pc = "review_load"   -> Load(m, th, "x", m.interval_days, "review_store")
      [] th.pc = "review_store"  -> Store(m, th, "next_review", t + th.x, "return")
      [] th.pc = "reset_interval" ->
            Store(m, th, "interval_days", 1 * Unit, "reset_review")
      [] th.pc = "reset_review"  -> Store(m, th, "next_review", t + 1 * Day, "return")

\* every caller enters at any time
MayCall_Any(turns, running, i) == TRUE

\* a caller that takes turns enters when no other call is in progress
MayCall(turns, running, i) ==
    turns => \A j \in Callers \ {i} : running[j].pc \in {"idle", "done"}

InitRace ==
    /\ now = 0
    /\ mastery_model \in {"hybrid", "assessment-based"}
    /\ scaffold_levels = 5
    /\ mastery_decay_rate = (5 * Unit) \div 100
    /\ \E m \in RaceStarts : domain_mastery = [c \in {Concept} |-> m]
    /\ ret = NoUpdate
    /\ level = 0
    /\ calls = 0
    /\ obs = << >>
    /\ graph = EmptyGraph
    /\ added = {}
    /\ path_call = NoPath
    /\ query = NoQuery
    /\ threads = [start |-> domain_mastery[Concept],
                  call  |-> [i \in Callers |-> IdleCall]]
    /\ serial \in BOOLEAN
    /\ session = NoSession

race_frame == <<now, config, level, calls, obs, graph, added, path_call, query,
                serial, session>>

\* a caller calls an update method: get_mastery finds the record, and the
\* mastery and scaffold level before the update are read
RaceCall ==
    \E i \in Callers, c \in RaceCalls :
        /\ threads.call[i].pc = "idle"
        /\ MayCall(serial, threads.call, i)
        /\ threads' = [threads EXCEPT !.call[i] =
                          [c EXCEPT !.before = domain_mastery[Concept],
                                    !.pc = IF c.op = "update_from_exposure"
                                           THEN "count_load" ELSE "append"]]
        /\ UNCHANGED <<domain_mastery, ret, race_frame>>

\* a call in progress executes its next load or store
RaceStep ==
    \E i \in Callers :
        LET th == threads.call[i]
            m  == domain_mastery[Concept]
        IN  /\ th.pc \notin {"idle", "return", "done"}
            /\ LET next == IF th.op = "update_from_exposure"
                           THEN exposure_step(m, th, mastery_model, now)
                           ELSE assessment_step(m, th, now)
               IN  /\ domain_mastery' = [domain_mastery EXCEPT ![Concept] = next.m]
                   /\ threads' = [threads EXCEPT !.call[i] = next.th]
            /\ UNCHANGED <<ret, race_frame>>

\* a call reads the mastery after the update and returns its MasteryUpdate
RaceReturn ==
    \E i \in Callers :
        LET th == threads.call[i]
            m  == domain_mastery[Concept]
        IN  /\ th.pc = "return"
            /\ ret' = IF th.op = "update_from_exposure"
                      THEN MasteryUpdate(Concept, th.before, m, scaffold_levels,
                                         m.exposure_count, m.next_review)
                      ELSE MasteryUpdate(Concept, th.before, m, scaffold_levels,
                                         0, None)
            /\ threads' = [threads EXCEPT !.call[i] =
                              [th EXCEPT !.pc = "done", !.x = 0, !.y = 0,
                                         !.before = NewMastery]]
            /\ UNCHANGED <<domain_mastery, race_frame>>

NextRace == RaceCall \/ RaceStep \/ RaceReturn

SpecRace == InitRace /\ [][NextRace]_vars

----------------------------------------------------------------------------
(* repl/session.py: the SessionController reading its input line by line.  *)
(* domain_mastery is the collection of the LearnerProfile object the        *)
(* mastery engine holds (mastery_engine.profile).  session.learner tells   *)
(* which object self.learner refers to: "profile", that same object, or    *)
(* "reloaded", the object a later repo.get built, kept in session.reloaded.*)
(* session.repo is the content of the database.                            *)

\* the most lines of input a session reads before it is ended
MaxInputs == 5

\* the most days the clock moves during a session
MaxSessionDays == 1

\* the concepts extract_concepts finds in a piece of content
StudyContents == {<< >>, <<"a">>, <<"b", "a">>}

\* LearnerRepository._save_mastery and _row_to_mastery: the columns of a
\* record; the assessment history has no column
row_to_mastery(m) == [m EXCEPT !.assessment_results = << >>]

\* the database without the learner
NoProfile ==
    [exists |-> FALSE, total_study_time_minutes |-> 0, domain_mastery |-> << >>]

\* LearnerRepository.save: the learner row and one row per record, each
\* inserted or updated
repo_save(repo, dm, minutes) ==
    [exists |-> TRUE,
     total_study_time_minutes |-> minutes,
     domain_mastery |->
        [c \in DOMAIN dm |-> row_to_mastery(dm[c])] @@ repo.domain_mastery]

\* the database the session starts on: no such learner, or a learner who
\* was exposed to a and b and assessed on b in an earlier session
SessionRepos ==
    LET seen == ExposedRecord(NewMastery, "hybrid", Unit, 0)
    IN  {NoProfile,
         repo_save(NoProfile,
                   ("a" :> seen) @@
                   ("b" :> AssessedRecord(seen, [is_correct |-> TRUE, score |-> Unit],
                                          "knowledge", 0)),
                   0)}

\* SessionController.__init__
NewController(repo) ==
    [pc |-> "new", state |-> "idle", running |-> FALSE,
     current_assessments |-> << >>, current_assessment_index |-> 0,
     concepts_studied |-> 0, assessments_attempted |-> 0,
     assessments_correct |-> 0, start_time |-> 0,
     learner |-> "none", profile_minutes |-> 0, reloaded |-> NoProfile,
     repo |-> repo, ended |-> 0, inputs |-> 0]

InitSession ==
    /\ now = 0
    /\ mastery_model = "hybrid"
    /\ scaffold_levels = 5
    /\ mastery_decay_rate = (5 * Unit) \div 100
    /\ domain_mastery = << >>
    /\ ret = NoUpdate
    /\ level = 0
    /\ calls = 0
    /\ obs = << >>
    /\ graph = EmptyGraph
    /\ added = {}
    /\ path_call = NoPath
    /\ query = NoQuery
    /\ threads = NoThreads
    /\ serial = TRUE
    /\ session \in {NewController(repo) : repo \in SessionRepos}

session_frame == <<config, level, calls, obs, graph, added, path_call, query,
                   threads, serial>>

\* run up to its loop: running is set, initialize loads the learner or
\* creates and saves it, and the transformer's mastery engine takes the
\* same object as its profile
Initialize ==
    /\ session.pc = "new"
    /\ domain_mastery' = session.repo.domain_mastery
    /\ session' = [session EXCEPT
                      !.pc = "loop",
                      !.running = TRUE,
                      !.learner = "profile",
                      !.profile_minutes = session.repo.total_study_time_minutes,
                      !.repo = IF session.repo.exists THEN @
                               ELSE repo_save(@, << >>, 0)]
    /\ UNCHANGED <<now, ret, session_frame>>

\* _end_session at time t: the elapsed minutes are added to self.learner
\* and self.learner is saved; dm is the collection of the engine's profile
end_session(s, dm, t) ==
    LET elapsed == ((t - s.start_time) * 1440) \div Unit
    IN  IF s.learner = "profile"
        THEN [s EXCEPT !.profile_minutes = @ + elapsed,
                       !.repo = repo_save(@, dm, s.profile_minutes + elapsed),
                       !.ended = @ + 1]
        ELSE [s EXCEPT !.reloaded.total_study_time_minutes = @ + elapsed,
                       !.repo = repo_save(@, s.reloaded.domain_mastery,
                                          s.reloaded.total_study_time_minutes
                                              + elapsed),
                       !.ended = @ + 1]

\* the loop is waiting for a line of input
Prompting(s) == s.pc = "loop" /\ s.running /\ s.inputs < MaxInputs

\* /quit: running is cleared, the loop ends and run saves the session
QuitInput ==
    /\ session.pc = "loop"
    /\ session' = [end_session([session EXCEPT !.running = FALSE],
                               domain_mastery, now)
                      EXCEPT !.pc = "returned"]
    /\ UNCHANGED <<now, domain_mastery, ret, session_frame>>

\* end of input: Prompt.ask raises EOFError; the handler of the exception
\* ends the session and breaks out of the loop, and run goes on to the
\* statement after the loop
EndOfInput ==
    /\ session.pc = "loop"
    /\ session' = [end_session(end_session(session, domain_mastery, now),
                               domain_mastery, now)
                      EXCEPT !.pc = "returned"]
    /\ UNCHANGED <<now, domain_mastery, ret, session_frame>>

\* /progress, _cmd_progress: self.learner becomes a new object that
\* repo.get builds from the database
ProgressInput ==
    /\ Prompting(session)
    /\ session' = [session EXCEPT
                      !.learner = "reloaded",
                      !.reloaded = [exists |-> TRUE,
                                    total_study_time_minutes |->
                                        session.repo.total_study_time_minutes,
                                    domain_mastery |-> session.repo.domain_mastery],
                      !.inputs = @ + 1]
    /\ UNCHANGED <<now, domain_mastery, ret, session_frame>>

\* _cmd_skip that leaves the assessment state to the next answer
cmd_skip_NoFinish(s) ==
    IF s.state # "assessment" THEN s
    ELSE [s EXCEPT !.current_assessment_index = @ + 1,
                   !.assessments_attempted = @ + 1]

\* _cmd_skip
cmd_skip(s) ==
    IF s.state # "assessment" THEN s
    ELSE [s EXCEPT !.current_assessment_index = @ + 1,
                   !.assessments_attempted = @ + 1,
                   !.state = IF s.current_assessment_index + 1
                                   < Len(s.current_assessments)
                             THEN @ ELSE "idle"]

SkipInput ==
    /\ Prompting(session)
    /\ session' = [cmd_skip(session) EXCEPT !.inputs = @ + 1]
    /\ UNCHANGED <<now, domain_mastery, ret, session_frame>>

\* LearnerRepository.get_concepts_due_for_review at time t: the rows with
\* no next_review or one that has come, in the order of next_review (rows
\* without one first), rows of equal next_review in any order
DueLists(rows, t) ==
    LET due == {c \in DOMAIN rows : rows[c].next_review = None
                                       \/ rows[c].next_review <= t}
    IN  {q \in [1..Cardinality(due) -> due] :
            /\ \A i, j \in DOMAIN q : i # j => q[i] # q[j]
            /\ \A i, j \in DOMAIN q :
                  i < j => rows[q[i]].next_review <= rows[q[j]].next_review}

\* _cmd_review on the list `due` the database returned; a knowledge
\* assessment is generated for each of the first five concepts whose
\* generation raises no exception (those in made)
cmd_review(s, due, made) ==
    IF due = << >> THEN s
    ELSE LET first == SubSeq(due, 1, Min(5, Len(due)))
             kept  == SelectSeq(first, LAMBDA c : c \in made)
             list  == [i \in DOMAIN kept |->
                          [concept_id |-> kept[i], bloom_level |-> "knowledge"]]
         IN  [s EXCEPT !.current_assessments = list,
                       !.current_assessment_index = 0,
                       !.state = IF list # << >> THEN "assessment" ELSE "idle"]

ReviewInput ==
    /\ Prompting(session)
    /\ \E due \in DueLists(session.repo.domain_mastery, now) :
          \E made \in SUBSET Range(due) :
              session' = [cmd_review(session, due, made) EXCEPT !.inputs = @ + 1]
    /\ UNCHANGED <<now, domain_mastery, ret, session_frame>>

\* ContentTransformer.transform, the exposures it records: the profile's
\* collection after update_from_exposure(c) for every concept of cs
RECURSIVE Exposed(_, _, _, _)
Exposed(dm, cs, model, t) ==
    IF cs = << >> THEN dm
    ELSE Exposed([dm EXCEPT ![Head(cs)] = ExposedRecord(@, model, Unit, t)],
                 Tail(cs), model, t)

\* ContentTransformer.transform, the assessments it generates: for every
\* concept one at the knowledge and one at the comprehension level
Assessments(cs) ==
    [i \in 1..(2 * Len(cs)) |->
        [concept_id |-> cs[(i + 1) \div 2],
         bloom_level |-> IF i % 2 = 1 THEN "knowledge" ELSE "comprehension"]]

\* _study_content, reached by a line of free input outside an assessment or
\* by /load in any state: cs are the concepts found, ready the answer to
\* "Ready to test your understanding?"
StudyInput ==
    /\ Prompting(session)
    /\ \E cs \in StudyContents, ready \in BOOLEAN, load \in BOOLEAN :
          LET looked == LookedUp(domain_mastery, cs)
              prior  == Exposed(looked, SubSeq(cs, 1, Len(cs) - 1),
                                mastery_model, now)
              after  == Exposed(looked, cs, mastery_model, now)
              last   == cs[Len(cs)]
          IN  /\ load \/ session.state # "assessment"
              /\ domain_mastery' = after
              /\ ret' = IF cs = << >> THEN ret
                        ELSE MasteryUpdate(last, prior[last], after[last],
                                           scaffold_levels,
                                           after[last].exposure_count,
                                           after[last].next_review)
              /\ session' =
                    IF cs = << >>
                    THEN [session EXCEPT !.state = "idle", !.inputs = @ + 1]
                    ELSE [session EXCEPT
                            !.current_assessments = Assessments(cs),
                            !.current_assessment_index = 0,
                            !.concepts_studied = @ + Len(cs),
                            !.reloaded.domain_mastery =
                                IF session.learner = "reloaded"
                                THEN LookedUp(@, cs) ELSE @,
                            !.state = IF ready THEN "assessment" ELSE "idle",
                            !.inputs = @ + 1]
    /\ UNCHANGED <<now, session_frame>>

\* _handle_assessment_response: a line that is no command, read while the
\* state is ASSESSMENT; result is the grade.  An exception out of
\* update_from_assessment leaves run without the rest of the handler
AnswerInput ==
    /\ Prompting(session)
    /\ session.state = "assessment"
    /\ \E result \in [is_correct : {TRUE}, score : {Unit}]
                        \cup [is_correct : {FALSE}, score : {0}] :
          IF session.current_assessment_index >= Len(session.current_assessments)
          THEN /\ session' = [session EXCEPT !.state = "idle", !.inputs = @ + 1]
               /\ UNCHANGED <<domain_mastery, ret>>
          ELSE LET a  == session.current_assessments[
                             session.current_assessment_index + 1]
                   dm == get_mastery(domain_mastery, a.concept_id)
                   m  == AssessedRecord(dm[a.concept_id], result,
                                        a.bloom_level, now)
                   raises == result.is_correct
                               /\ SchedulerRaises(dm[a.concept_id],
                                                  result.score, now)
                   graded == [session EXCEPT
                                !.assessments_attempted = @ + 1,
                                !.assessments_correct =
                                    IF result.is_correct THEN @ + 1 ELSE @,
                                !.inputs = @ + 1]
               IN  /\ domain_mastery' = [dm EXCEPT ![a.concept_id] = m]
                   /\ ret' = IF raises THEN OverflowError
                             ELSE MasteryUpdate(a.concept_id, dm[a.concept_id],
                                                m, scaffold_levels, 0, None)
                   /\ session' =
                        IF raises THEN [graded EXCEPT !.pc = "raised"]
                        ELSE [graded EXCEPT
                                !.current_assessment_index = @ + 1,
                                !.state =
                                    IF session.current_assessment_index + 1
                                          < Len(session.current_assessments)
                                    THEN @ ELSE "idle"]
    /\ UNCHANGED <<now, session_frame>>

\* a day passes while the prompt waits
SessionWait ==
    /\ session.pc = "loop"
    /\ now + Day <= MaxSessionDays * Day
    /\ now' = now + Day
    /\ UNCHANGED <<domain_mastery, ret, session, session_frame>>

NextSession ==
    \/ Initialize \/ QuitInput \/ EndOfInput \/ ProgressInput \/ SkipInput
    \/ ReviewInput \/ StudyInput \/ AnswerInput \/ SessionWait

SpecSession == InitSession /\ [][NextSession]_vars

----------------------------------------------------------------------------
(* Properties *)

\* the record get_mastery hands to a call on concept c
Before(c) == get_mastery(domain_mastery, c)[c]

Dimensions == {"recognition_score", "comprehension_score", "application_score"}

InRange(x) == 0 <= x /\ x <= 100 * Unit

\* C1: after any sequence of exposures, assessments and decay on lazily
\* created records, recognition, comprehension and application are each in
\* [0,100], and so is overall_mastery = 0.2r + 0.3c + 0.5a.
C1_DimensionsInRange ==
    \A c \in DOMAIN domain_mastery :
        LET m == domain_mastery[c]
        IN  /\ \A d \in Dimensions : InRange(m[d])
            /\ overall_mastery(m) = 2 * m.recognition_score
                                    + 3 * m.comprehension_score
                                    + 5 * m.application_score
            /\ 0 <= overall_mastery(m)
            /\ overall_mastery(m) <= 100 * 10 * Unit

\* a record that was exposed and then failed an assessment at application: the
\* floor at 0 was used and a positive score remains
C1_Witness ==
    \E c \in DOMAIN domain_mastery :
        LET m == domain_mastery[c]
        IN  /\ calls = MaxCalls
            /\ m.exposure_count = 1
            /\ Len(m.assessment_results) = 1
            /\ ~m.assessment_results[1].is_correct
            /\ m.recognition_score > 0
            /\ m.application_score = 0

\* C2: ease_factor >= 1.3 in every reachable state of a record.
C2_EaseFloor ==
    \A c \in DOMAIN domain_mastery :
        10 * domain_mastery[c].ease_factor >= 13 * Unit

\* three low-quality correct answers in a row: the floor itself is reached
C2_Witness ==
    \E c \in DOMAIN domain_mastery :
        LET m == domain_mastery[c]
        IN  /\ Len(m.assessment_results) >= 3
            /\ \A i \in 1..3 : /\ m.assessment_results[i].is_correct
                               /\ m.assessment_results[i].score = 0
            /\ 10 * m.ease_factor = 13 * Unit

\* C3: an incorrect assessment, in any record state and with any score,
\* leaves interval_days = 1 and next_review = (time of the call) + 1 day.
C3_IncorrectResets ==
    [][\A c \in ConceptIds, s \in Scores, b \in BloomLevels :
          update_from_assessment(c, [is_correct |-> FALSE, score |-> s], b)
          => /\ domain_mastery'[c].interval_days = 1 * Unit
             /\ domain_mastery'[c].next_review = now + 1 * Day]_vars

\* an incorrect answer right after a pass that had set a longer interval
C3_Witness ==
    \E c \in DOMAIN domain_mastery :
        LET m == domain_mastery[c]
            n == Len(m.assessment_results)
        IN  /\ n >= 2
            /\ ~m.assessment_results[n].is_correct
            /\ m.assessment_results[n - 1].is_correct
            /\ m.assessment_results[n - 1].score = Unit
            /\ m.exposure_count >= 2
            /\ m.ease_factor > (25 * Unit) \div 10
            /\ m.last_assessment = now
            /\ now > 0
            /\ m.interval_days = 1 * Unit
            /\ m.next_review = now + 1 * Day

\* number of passes (correct, grade >= 3) in a history of results
RECURSIVE Passes(_)
Passes(results) ==
    IF results = << >> THEN 0
    ELSE Passes(Tail(results))
         + (IF Head(results).is_correct /\ 5 * Head(results).score >= 3 * Unit
            THEN 1 ELSE 0)

PassingScores == {s \in Scores : 5 * s >= 3 * Unit}

C5_LevelWithinLevels ==
    [][\A c \in ConceptIds :
          engine_get_scaffold_level(c)
          => (1 <= level' /\ level' <= scaffold_levels)]_vars

\* C6: overall_mastery m maps to 1 if m < 20, 2 if 20 <= m < 40, 3 if
\* 40 <= m < 60, 4 if 60 <= m < 80 and num_levels if m >= 80, whatever
\* num_levels is.
C6_Breakpoints ==
    [][\A c \in ConceptIds :
          engine_get_scaffold_level(c)
          => LET m == overall_mastery(Before(c))
             IN  /\ (m < 200 * Unit) => level' = 1
                 /\ (200 * Unit <= m /\ m < 400 * Unit) => level' = 2
                 /\ (400 * Unit <= m /\ m < 600 * Unit) => level' = 3
                 /\ (600 * Unit <= m /\ m < 800 * Unit) => level' = 4
                 /\ (800 * Unit <= m) => level' = scaffold_levels]_vars

\* a record at exactly 80 asked under more than five levels
C6_Witness ==
    /\ calls = 1
    /\ DOMAIN domain_mastery = {Concept}
    /\ overall_mastery(domain_mastery[Concept]) = 800 * Unit
    /\ scaffold_levels > 5
    /\ level = scaffold_levels

\* C7: update_from_exposure sets recognition to
\* min(100, r + 15*quality*(1 - r/100)), adds exactly 1 to exposure_count,
\* sets first_exposure to now only if it was null and last_exposure to now;
\* quality 1.0 takes a fresh record to 15 and a record at 15 to 27.75.
C7_Exposure ==
    [][\A c \in ConceptIds, q \in Qualities :
          update_from_exposure(c, q)
          => LET old == Before(c)
                 new == domain_mastery'[c]
                 r   == old.recognition_score
                 sum == r + (15 * q * (100 * Unit - r) + 50 * Unit) \div (100 * Unit)
             IN  /\ new.recognition_score = IF sum > 100 * Unit THEN 100 * Unit ELSE sum
                 /\ new.exposure_count = old.exposure_count + 1
                 /\ new.first_exposure =
                       IF old.first_exposure = None THEN now ELSE old.first_exposure
                 /\ new.last_exposure = now
                 /\ (c \notin DOMAIN domain_mastery /\ q = Unit)
                       => new.recognition_score = 15 * Unit
                 /\ (r = 15 * Unit /\ q = Unit)
                       => new.recognition_score = (2775 * Unit) \div 100]_vars

\* the second of two full-quality exposures, made later than the first
C7_Witness ==
    \E c \in DOMAIN domain_mastery :
        LET m == domain_mastery[c]
        IN  /\ m.exposure_count = 2
            /\ m.recognition_score = (2775 * Unit) \div 100
            /\ m.first_exposure = 0
            /\ m.last_exposure = now
            /\ now > 0

Reading(i) == IF i = 0 THEN 0 ELSE obs[i]

Selected(b) ==
    CASE b = "knowledge"     -> "recognition_score"
      [] b = "comprehension" -> "comprehension_score"
      [] b = "analysis"      -> "comprehension_score"
      [] b = "application"   -> "application_score"
      [] b = "synthesis"     -> "application_score"
      [] b = "evaluation"    -> "application_score"

\* C9: update_from_assessment adjusts the one dimension its bloom level
\* selects and leaves the other two at their previous values.
C9_OneDimension ==
    [][\A c \in ConceptIds, r \in Results, b \in BloomLevels :
          update_from_assessment(c, r, b)
          => LET old == Before(c)
                 new == domain_mastery'[c]
                 sel == Selected(b)
             IN  /\ \A d \in Dimensions \ {sel} : new[d] = old[d]
                 /\ (r.is_correct /\ r.score > 0 /\ old[sel] <= 99 * Unit)
                       => new[sel] > old[sel]
                 /\ (~r.is_correct /\ r.score < Unit /\ old[sel] > 0)
                       => new[sel] < old[sel]]_vars

\* an exposure under the hybrid model, then a correct assessment that raised
\* comprehension and left recognition and application alone
C9_Witness ==
    \E c \in DOMAIN domain_mastery :
        LET m == domain_mastery[c]
        IN  /\ mastery_model = "hybrid"
            /\ m.exposure_count = 1
            /\ Len(m.assessment_results) = 1
            /\ m.last_assessment > m.last_exposure
            /\ m.recognition_score = 15 * Unit
            /\ m.comprehension_score > 5 * Unit
            /\ m.application_score = 0

\* C10 as stated: a bloom level outside the enum adjusts comprehension, so
\* recognition and application keep their values.
C10_OtherIsComprehension ==
    [][\A r \in Results :
          update_from_assessment(Concept, r, OtherBloom)
          => /\ domain_mastery'[Concept].recognition_score
                   = Before(Concept).recognition_score
             /\ domain_mastery'[Concept].application_score
                   = Before(Concept).application_score]_vars

\* C10 (amended): a bloom level outside the enum adjusts application;
\* recognition and comprehension keep their values.
C10_OtherIsApplication ==
    [][\A r \in Results :
          update_from_assessment(Concept, r, OtherBloom)
          => LET old == Before(Concept)
                 new == domain_mastery'[Concept]
             IN  /\ new.recognition_score = old.recognition_score
                 /\ new.comprehension_score = old.comprehension_score
                 /\ (r.is_correct /\ r.score > 0 /\ old.application_score <= 99 * Unit)
                       => new.application_score > old.application_score
                 /\ (~r.is_correct /\ r.score < Unit /\ old.application_score > 0)
                       => new.application_score < old.application_score]_vars

\* one correct and then one incorrect assessment at an unknown level: only
\* application has moved
C10_Witness ==
    /\ Concept \in DOMAIN domain_mastery
    /\ LET m == domain_mastery[Concept]
       IN  /\ m.exposure_count = 0
           /\ Len(m.assessment_results) = 2
           /\ m.assessment_results[1].is_correct
           /\ ~m.assessment_results[2].is_correct
           /\ m.application_score > 0
           /\ m.recognition_score = 0
           /\ m.comprehension_score = 0

\* the bound B of C11 tried by the model: one less than the calls it makes
HistoryBound == MaxSchedCalls - 1

\* C11 as stated: the assessment history of a record is bounded, it never
\* holds more than a fixed number B of results however many assessments
\* are made.
C11_HistoryBounded ==
    \A c \in DOMAIN domain_mastery :
        Len(domain_mastery[c].assessment_results) <= HistoryBound

\* C12: apply_decay never leaves a mastery dimension below 0, and under the
\* assessment-based and exposure-count mastery models it changes no record.
C12_DecayFloorAndNoOp ==
    [][apply_decay
       => /\ \A c \in DOMAIN domain_mastery' : \A d \in Dimensions :
                domain_mastery'[c][d] >= 0
          /\ mastery_model \in {"assessment-based", "exposure-count"}
                => domain_mastery' = domain_mastery]_vars

\* a record exposed once and decayed a day later: recognition lost half the
\* decay, application, already 0, was held at 0
C12_Witness ==
    \E c \in DOMAIN domain_mastery :
        LET m == domain_mastery[c]
        IN  /\ mastery_model \in {"spaced-repetition", "hybrid"}
            /\ mastery_decay_rate > 0
            /\ m.exposure_count = 1
            /\ m.application_score = 0
            /\ m.recognition_score =
                  ExposureRecognition(Unit, 0) - RoundDiv(mastery_decay_rate * 5, 10)

\* the prerequisite edges of the graph as a set of <<prerequisite, concept>>
PrereqEdges(g) == Range(g.prerequisite_edges)

\* the least set that holds S and every prerequisite of its members
RECURSIVE Closure(_, _)
Closure(g, S) ==
    LET T == S \cup {e[1] : e \in {f \in PrereqEdges(g) : f[2] \in S}}
    IN  IF T = S THEN S ELSE Closure(g, T)

\* n is among its own transitive prerequisites
OnCycle(g, n) ==
    \E e \in PrereqEdges(g) : e[2] = n /\ n \in Closure(g, {e[1]})

Acyclic(g) == \A e \in PrereqEdges(g) : ~OnCycle(g, e[2])

\* the chain C requires B, B requires A
IsChain(g) == PrereqEdges(g) = {<<"a", "b">>, <<"b", "c">>}

\* C13: on an acyclic graph get_learning_path(target) returns a path whose
\* elements are exactly the concepts reachable from target over prerequisite
\* edges, in which every concept comes after all its prerequisites and the
\* target is last; on the chain C requires B requires A it is [A, B, C].
C13_TopologicalPath ==
    (path_call.pc = "done" /\ Acyclic(graph))
    => LET path == path_call.path
           t    == path_call.target
       IN  /\ Range(path) = Closure(graph, {t})
           /\ path[Len(path)] = t
           /\ \A i \in 1..Len(path) :
                 \A e \in PrereqEdges(graph) :
                    e[2] = path[i] => \E j \in 1..(i - 1) : path[j] = e[1]
           /\ (IsChain(graph) /\ t = "c") => path = <<"a", "b", "c">>

\* the path to c on the chain has been returned
C13_Witness ==
    /\ path_call.pc = "done"
    /\ IsChain(graph)
    /\ path_call.target = "c"
    /\ path_call.path = <<"a", "b", "c">>

\* C14: get_learning_path returns on every graph, cycles and self-loops
\* included, and its path holds each concept at most once.
C14_Terminates ==
    /\ (path_call.pc = "run") ~> (path_call.pc = "done")
    /\ [](\A i \in 1..Len(path_call.path) : \A j \in 1..Len(path_call.path) :
             path_call.path[i] = path_call.path[j] => i = j)

\* a path of several concepts returned for a target that lies on a cycle
C14_Witness ==
    /\ path_call.pc = "done"
    /\ OnCycle(graph, path_call.target)
    /\ Len(path_call.path) >= 2

\* C15: get_next_concepts(mastered) returns exactly the concept ids in the
\* graph that are not in mastered and whose prerequisite ids are all in
\* mastered, each once.
C15_NextConcepts ==
    query.op = "get_next_concepts"
    => /\ Range(query.value) =
             {id \in DOMAIN graph.concepts :
                 /\ id \notin query.arg
                 /\ \A e \in PrereqEdges(graph) : e[2] = id => e[1] \in query.arg}
       /\ Len(query.value) = Cardinality(Range(query.value))

\* with a mastered, b is ready and c, which also needs b, is held back
C15_Witness ==
    /\ query.op = "get_next_concepts"
    /\ query.arg = {"a"}
    /\ query.value = <<"b">>
    /\ <<"b", "c">> \in PrereqEdges(graph)
    /\ <<"a", "c">> \in PrereqEdges(graph)

\* C16 as stated: get_mastered_concepts, get_struggling_concepts,
\* get_concepts_due_for_review, get_overall_scaffold_level and get_stats are
\* pure reads: none of them changes the record collection, also when asked
\* about concepts never seen.
C16_QueriesPure ==
    [][(\/ get_mastered_concepts
        \/ get_struggling_concepts
        \/ get_concepts_due_for_review
        \/ get_stats
        \/ \E cs \in ConceptLists : get_overall_scaffold_level(cs))
       => domain_mastery' = domain_mastery]_vars

\* C17: get_mastery on a concept without a record adds one record, with the
\* three dimensions 0, exposure_count 0, ease factor 2.5, interval 1.0 and
\* no next_review, and returns it; on a concept with a record it returns
\* that record and changes nothing.
C17_GetOrCreate ==
    [][\A c \in ConceptIds :
          profile_get_mastery(c)
          => IF c \in DOMAIN domain_mastery
             THEN /\ domain_mastery' = domain_mastery
                  /\ query'.value = domain_mastery[c]
             ELSE /\ DOMAIN domain_mastery' = DOMAIN domain_mastery \cup {c}
                  /\ \A x \in DOMAIN domain_mastery :
                        domain_mastery'[x] = domain_mastery[x]
                  /\ query'.value = domain_mastery'[c]
                  /\ \A d \in Dimensions : domain_mastery'[c][d] = 0
                  /\ domain_mastery'[c].exposure_count = 0
                  /\ domain_mastery'[c].ease_factor = 2500
                  /\ domain_mastery'[c].interval_days = 1000
                  /\ domain_mastery'[c].next_review = None]_vars

\* get_mastery has returned a record that an update had changed
C17_Witness ==
    /\ query.op = "get_mastery"
    /\ query.value.exposure_count > 0
    /\ query.value = domain_mastery[query.arg]

C19_EdgeSets ==
    /\ Range(graph.prerequisite_edges) =
          UNION {{<<p, k.concept_id>> : p \in Range(k.prerequisites)} : k \in added}
    /\ Range(graph.related_edges) =
          UNION {{<<k.concept_id, r>> : r \in Range(k.related_concepts)} : k \in added}
    /\ Range(graph.hierarchy_edges) =
          {<<k.parent_concept, k.concept_id>> :
              k \in {x \in added : x.parent_concept # NoParent}}

\* three concepts added, b before the a it names as prerequisite and parent,
\* and a related edge declared twice kept once
C19_Witness ==
    /\ Cardinality(added) = 3
    /\ graph.keys[1] = "b"
    /\ <<"a", "b">> \in Range(graph.prerequisite_edges)
    /\ <<"a", "b">> \in Range(graph.hierarchy_edges)
    /\ "a" \in Range(graph.keys)
    /\ \E k \in added : k.related_concepts = <<"b", "b">>

C26_IntervalAndReview ==
    \A c \in DOMAIN domain_mastery :
        LET m == domain_mastery[c]
        IN  /\ m.interval_days >= 1 * Unit
            /\ m.next_review # None
                  => m.next_review = m.last_assessment + m.interval_days

\* C21: update_from_assessment with score s sets the selected dimension,
\* at c before the call, to min(100, c + 20 s (1 - c/100)) when the result
\* is correct and to max(0, c - 10 (1 - s)) when it is incorrect; the ease
\* factor is updated in the correct case only.
C21_AssessmentScore ==
    [][\A r \in Results, b \in BloomLevels :
          update_from_assessment(Concept, r, b)
          => LET old == Before(Concept)
                 new == domain_mastery'[Concept]
                 c   == old[Selected(b)]
                 q   == (5 * r.score) \div Unit
             IN  IF r.is_correct
                 THEN /\ new[Selected(b)] =
                            Min(100 * Unit,
                                c + (20 * r.score * (100 * Unit - c) + 50 * Unit)
                                       \div (100 * Unit))
                      /\ new.ease_factor =
                            Max(1300, old.ease_factor + 100
                                         - (5 - q) * (80 + (5 - q) * 20))
                 ELSE /\ new[Selected(b)] = Max(0, c - 10 * (Unit - r.score))
                      /\ new.ease_factor = old.ease_factor]_vars

\* a correct answer of score 1 raised application to 20 and the ease factor
\* to 2.6, an incorrect one of score 0.6 then took 4 off and left the ease
C21_Witness ==
    \E c \in DOMAIN domain_mastery :
        LET m == domain_mastery[c]
        IN  /\ Len(m.assessment_results) = 2
            /\ m.assessment_results[1].is_correct
            /\ ~m.assessment_results[2].is_correct
            /\ m.application_score = 16 * Unit
            /\ m.ease_factor = 2600

\* C22: update_from_exposure leaves application, ease_factor, interval_days,
\* next_review and the assessment history alone; comprehension becomes
\* min(100, c + 5 quality (1 - c/100)) under exposure-count and hybrid and
\* stays under the other models; the MasteryUpdate returned carries the
\* record's next_review.
C22_ExposureFrame ==
    [][\A q \in Qualities :
          update_from_exposure(Concept, q)
          => LET old == Before(Concept)
                 new == domain_mastery'[Concept]
             IN  /\ new.application_score = old.application_score
                 /\ new.ease_factor = old.ease_factor
                 /\ new.interval_days = old.interval_days
                 /\ new.next_review = old.next_review
                 /\ new.assessment_results = old.assessment_results
                 /\ new.comprehension_score =
                       IF mastery_model \in {"exposure-count", "hybrid"}
                       THEN Min(100 * Unit,
                                old.comprehension_score
                                  + (5 * q * (100 * Unit - old.comprehension_score)
                                       + 50 * Unit) \div (100 * Unit))
                       ELSE old.comprehension_score
                 /\ ret'.new_next_review = old.next_review]_vars

\* under spaced-repetition an exposure after an assessment: comprehension is
\* still 0 and the update returned carries the review date the assessment set
C22_Witness ==
    /\ mastery_model = "spaced-repetition"
    /\ Concept \in DOMAIN domain_mastery
    /\ domain_mastery[Concept].exposure_count = 1
    /\ domain_mastery[Concept].recognition_score > 0
    /\ domain_mastery[Concept].comprehension_score = 0
    /\ domain_mastery[Concept].next_review # None
    /\ ret.new_exposure_count = 1
    /\ ret.new_next_review = domain_mastery[Concept].next_review

\* C23: under spaced-repetition and hybrid one apply_decay call takes
\* rate*days*0.5 off recognition, rate*days*0.7 off comprehension and
\* rate*days off application of every record that has a last_exposure, days
\* being the whole days since then and each result floored at 0; it leaves
\* the records without last_exposure and every other field as they are, so
\* a second call at the same time takes the same amounts again.
C23_DecayAmounts ==
    [][(apply_decay /\ mastery_model \in {"spaced-repetition", "hybrid"})
       => /\ DOMAIN domain_mastery' = DOMAIN domain_mastery
          /\ \A c \in DOMAIN domain_mastery :
                LET old  == domain_mastery[c]
                    new  == domain_mastery'[c]
                    days == (now - old.last_exposure) \div 1000
                    off  == mastery_decay_rate * days
                IN  IF old.last_exposure = None
                    THEN new = old
                    ELSE new = [old EXCEPT
                           !.recognition_score   = Max(0, @ - (off * 5 + 5) \div 10),
                           !.comprehension_score = Max(0, @ - (off * 7 + 5) \div 10),
                           !.application_score   = Max(0, @ - off)]]_vars

\* a record exposed once and decayed twice at the same time, a day and a
\* half later: recognition lost 0.025 twice
C23_Witness ==
    \E c \in DOMAIN domain_mastery :
        LET m == domain_mastery[c]
        IN  /\ m.exposure_count = 1
            /\ m.assessment_results = << >>
            /\ now - m.last_exposure = TickStep
            /\ m.recognition_score = 15 * Unit - 50

\* C25 as stated: the MasteryUpdate returned by update_from_assessment
\* carries the record's next_review as that call set it and the record's
\* exposure_count, as the one returned by update_from_exposure does.
C25_AssessmentUpdate ==
    [][\A r \in SchedResults :
          update_from_assessment(Concept, r, SchedBloom)
          => /\ ret'.new_next_review = domain_mastery'[Concept].next_review
             /\ ret'.new_exposure_count = domain_mastery'[Concept].exposure_count]_vars

\* exposure_count of concept c, 0 while it has no record
Exposures(dm, c) == IF c \in DOMAIN dm THEN dm[c].exposure_count ELSE 0

\* C27: update_from_assessment leaves exposure_count, first_exposure and
\* last_exposure alone and an incorrect one leaves ease_factor alone;
\* exposure_count counts the update_from_exposure calls of the concept: it
\* rises by one in each of them and in no other step; it is 0 exactly when
\* first_exposure and last_exposure are unset.
C27_ExposureCount ==
    /\ [][\A c \in ConceptIds, r \in ProfileResults :
             update_from_assessment(c, r, SchedBloom)
             => LET old == Before(c)
                    new == domain_mastery'[c]
                IN  /\ new.exposure_count = old.exposure_count
                    /\ new.first_exposure = old.first_exposure
                    /\ new.last_exposure = old.last_exposure
                    /\ ~r.is_correct => new.ease_factor = old.ease_factor]_vars
    /\ [][\A c \in ConceptIds :
             Exposures(domain_mastery', c) =
                Exposures(domain_mastery, c)
                  + (IF \E q \in Qualities : update_from_exposure(c, q) THEN 1 ELSE 0)]_vars
    /\ [](\A c \in DOMAIN domain_mastery :
             domain_mastery[c].exposure_count = 0
                <=> /\ domain_mastery[c].first_exposure = None
                    /\ domain_mastery[c].last_exposure = None)

\* one exposure, then an incorrect assessment a day later: the count is
\* still 1, the exposure dates and the ease factor are as they were
C27_Witness ==
    \E c \in DOMAIN domain_mastery :
        LET m == domain_mastery[c]
        IN  /\ m.exposure_count = 1
            /\ Len(m.assessment_results) = 1
            /\ ~m.assessment_results[1].is_correct
            /\ m.last_assessment > m.last_exposure
            /\ m.first_exposure = m.last_exposure
            /\ m.ease_factor = 2500

\* the record after the call `th` made alone on record m
Alone(m, th) ==
    IF th.op = "update_from_exposure"
    THEN ExposedRecord(m, mastery_model, th.quality, now)
    ELSE AssessedRecord(m, th.result, th.bloom_level, now)

\* the final records of the two serial orders of the two calls
SerialOutcomes ==
    {Alone(Alone(threads.start, threads.call[1]), threads.call[2]),
     Alone(Alone(threads.start, threads.call[2]), threads.call[1])}

BothReturned == \A i \in Callers : threads.call[i].pc = "done"

\* C24: when the two callers of update_from_exposure / update_from_assessment
\* on one record take turns (mutual exclusion), the record after both calls
\* have returned is the record some serial order of the two calls produces.
\* Without mutual exclusion a final record that no serial order produces is
\* reachable (C24_Witness).
C24_SerialUnderExclusion ==
    (threads # NoThreads /\ serial /\ BothReturned)
        => domain_mastery[Concept] \in SerialOutcomes

\* two interleaved exposures have raised exposure_count by 1 only, and the
\* final record is that of no serial order
C24_Witness ==
    /\ threads # NoThreads
    /\ ~serial
    /\ BothReturned
    /\ \A i \in Callers : threads.call[i].op = "update_from_exposure"
    /\ domain_mastery[Concept].exposure_count = threads.start.exposure_count + 1
    /\ domain_mastery[Concept] \notin SerialOutcomes

InAssessment == session # NoSession /\ session.state = "assessment"

OnLast ==
    /\ InAssessment
    /\ session.current_assessment_index + 1 = Len(session.current_assessments)

C30_EndSessionOnce ==
    (session # NoSession /\ session.pc = "returned") => session.ended = 1

====
